---- MODULE Spec2Model ----
(***************************************************************************)
(* A model of the Python tooling of goeph:                                 *)
(*   validation/compare_outputs.py        the comparison harness           *)
(*   validation/generate_data_py/*.py     the CSV dataset builder          *)
(*   testdata/generate_golden.py          the golden dataset builder       *)
(*   testdata/generate_golden_almanac.py  the almanac fixtures             *)
(*                                                                         *)
(* Strings are sequences of one-character strings, so that the string      *)
(* operations of the code (rsplit, replace, endswith, lower, sorted) are   *)
(* computed as Python computes them.                                       *)
(***************************************************************************)
EXTENDS Integers, Sequences, FiniteSets, TLC

(***************************************************************************)
(* Bounds of the model.                                                    *)
(***************************************************************************)
\* rows per dataset in the family of inputs that varies the Time keys
MaxRows == 3
\* distinct Time keys
MaxTime == 2
\* rows per dataset in the family of inputs that varies the cell values
MaxValRows == 2
\* quantity columns per dataset in the family of inputs that varies the names
MaxCols == 2

(***************************************************************************)
(* Python str operations on sequences of characters.                       *)
(***************************************************************************)
\* the letters in code point order: 'A' is 65, 'a' is 97; '_' is 95
UpperCase ==
    <<"A","B","C","D","E","F","G","H","I","J","K","L","M","N","O","P","Q","R",
      "S","T","U","V","W","X","Y","Z">>

LowerCase ==
    <<"a","b","c","d","e","f","g","h","i","j","k","l","m","n","o","p","q","r",
      "s","t","u","v","w","x","y","z">>

\* ord(c)
CodePoint(c) ==
    IF c = "_" THEN 95
    ELSE IF \E i \in 1..26 : UpperCase[i] = c
         THEN 64 + (CHOOSE i \in 1..26 : UpperCase[i] = c)
         ELSE 96 + (CHOOSE i \in 1..26 : LowerCase[i] = c)

SetMax(S) == CHOOSE x \in S : \A y \in S : y <= x

\* s[i:i+len(sep)] == sep
IsAt(s, sep, i) ==
    /\ i + Len(sep) - 1 <= Len(s)
    /\ SubSeq(s, i, i + Len(sep) - 1) = sep

\* str.endswith
EndsWith(s, suffix) ==
    /\ Len(suffix) <= Len(s)
    /\ SubSeq(s, Len(s) - Len(suffix) + 1, Len(s)) = suffix

\* s.rsplit(sep, 1)[0]: the text before the last occurrence of sep, or all
\* of s when sep does not occur
RSplitHead(s, sep) ==
    LET at == {i \in 1..Len(s) : IsAt(s, sep, i)}
    IN  IF at = {} THEN s ELSE SubSeq(s, 1, SetMax(at) - 1)

\* s.replace(old, ""): every occurrence of old removed, scanning from the left
RECURSIVE StrRemove(_, _)
StrRemove(s, old) ==
    IF Len(s) < Len(old) THEN s
    ELSE IF IsAt(s, old, 1)
         THEN StrRemove(SubSeq(s, Len(old) + 1, Len(s)), old)
         ELSE <<s[1]>> \o StrRemove(Tail(s), old)

\* str.lower on one character
LowerChar(c) ==
    IF CodePoint(c) >= 65 /\ CodePoint(c) <= 90
    THEN LowerCase[CodePoint(c) - 64]
    ELSE c

\* str.lower
Lower(s) == [i \in 1..Len(s) |-> LowerChar(s[i])]

\* a < b for Python strings (code point order, a proper prefix first)
RECURSIVE StrLess(_, _)
StrLess(a, b) ==
    IF b = <<>> THEN FALSE
    ELSE IF a = <<>> THEN TRUE
    ELSE IF a[1] = b[1] THEN StrLess(Tail(a), Tail(b))
    ELSE CodePoint(a[1]) < CodePoint(b[1])

\* sorted(S) for a set of strings
RECURSIVE Sorted(_)
Sorted(S) ==
    IF S = {} THEN <<>>
    ELSE LET m == CHOOSE x \in S : \A y \in S \ {x} : StrLess(x, y)
         IN  <<m>> \o Sorted(S \ {m})

Range(f) == {f[i] : i \in DOMAIN f}

(***************************************************************************)
(* Names.                                                                  *)
(***************************************************************************)
S_Time == <<"T","i","m","e">>
S_go == <<"_","g","o">>
S_py == <<"_","p","y">>
S_lat_deg == <<"_","l","a","t","_","d","e","g">>
S_lon_deg == <<"_","l","o","n","_","d","e","g">>
S_sub_lat_deg == <<"_","s","u","b">> \o S_lat_deg
S_sub_lon_deg == <<"_","s","u","b">> \o S_lon_deg
S_north_node_lon_deg == <<"n","o","r","t","h","_","n","o","d","e">> \o S_lon_deg
S_south_node_lon_deg == <<"s","o","u","t","h","_","n","o","d","e">> \o S_lon_deg

(***************************************************************************)
(* compare_outputs.py: column categories.                                  *)
(***************************************************************************)
PLANETS ==
    { <<"s","u","n">>, <<"m","o","o","n">>, <<"m","e","r","c","u","r","y">>,
      <<"v","e","n","u","s">>, <<"m","a","r","s">>,
      <<"j","u","p","i","t","e","r">>, <<"s","a","t","u","r","n">>,
      <<"u","r","a","n","u","s">>, <<"n","e","p","t","u","n","e">>,
      <<"p","l","u","t","o">> }

GC == { <<"g","c">> }

SATELLITES ==
    { <<"f","a","s","t","i","s","s">>, <<"i","s","s","a","n","t","i">>,
      <<"p","o","l","e","s","a","t">> }

LOCATIONS ==
    { <<"l","o","c","_","n","i">>,
      <<"l","o","c","_","c","h","i","c","a","g","o">>,
      <<"l","o","c","_","l","o","n","d","o","n">>,
      <<"l","o","c","_","c","u","s","h","i","n","g">>,
      <<"l","o","c","_","n","y">>,
      <<"l","o","c","_","m","u","m","b","a","i">> }

NODES == { S_north_node_lon_deg, S_south_node_lon_deg }

\* a categorize that only strips the two plain suffixes
categorize_NoSub(col) ==
    LET prefix == RSplitHead(RSplitHead(col, S_lat_deg), S_lon_deg)
    IN  IF prefix \in PLANETS THEN "Planets"
        ELSE IF prefix \in GC THEN "Galactic Center"
        ELSE IF prefix \in SATELLITES THEN "Satellites"
        ELSE IF prefix \in LOCATIONS THEN "Locations"
        ELSE IF col \in NODES THEN "Lunar Nodes"
        ELSE "Other"

categorize(col) ==
    LET prefix ==
            RSplitHead(RSplitHead(RSplitHead(RSplitHead(col, S_sub_lat_deg),
                                             S_sub_lon_deg),
                                  S_lat_deg),
                       S_lon_deg)
    IN  IF prefix \in PLANETS THEN "Planets"
        ELSE IF prefix \in GC THEN "Galactic Center"
        ELSE IF prefix \in SATELLITES THEN "Satellites"
        ELSE IF prefix \in LOCATIONS THEN "Locations"
        ELSE IF col \in NODES THEN "Lunar Nodes"
        ELSE "Other"

(***************************************************************************)
(* Numbers of the harness.  A float is a record: k is "num" (the rational  *)
(* v/d, d > 0), "inf" (v is the sign) or "nan".                            *)
(***************************************************************************)
NaN == [k |-> "nan", v |-> 0, d |-> 1]

Inf == [k |-> "inf", v |-> 1, d |-> 1]

NegInf == [k |-> "inf", v |-> -1, d |-> 1]

Rat(v, d) == [k |-> "num", v |-> v, d |-> d]

Num(v) == Rat(v, 1)

\* np.isnan / Series.isna
IsNaN(x) == x.k = "nan"

\* Series.notna: infinities are not missing values
NotNA(x) == x.k # "nan"

\* x - y on floats
FSub(x, y) ==
    IF IsNaN(x) \/ IsNaN(y) THEN NaN
    ELSE IF x.k = "inf" /\ y.k = "inf"
         THEN (IF x.v = y.v THEN NaN ELSE x)
    ELSE IF x.k = "inf" THEN x
    ELSE IF y.k = "inf" THEN [y EXCEPT !.v = -y.v]
    ELSE Rat(x.v * y.d - y.v * x.d, x.d * y.d)

\* abs(x)
FAbs(x) ==
    IF x.v < 0 THEN [x EXCEPT !.v = -x.v] ELSE x

\* x + y on floats
FAdd(x, y) ==
    IF IsNaN(x) \/ IsNaN(y) THEN NaN
    ELSE IF x.k = "inf" /\ y.k = "inf"
         THEN (IF x.v = y.v THEN x ELSE NaN)
    ELSE IF x.k = "inf" THEN x
    ELSE IF y.k = "inf" THEN y
    ELSE Rat(x.v * y.d + y.v * x.d, x.d * y.d)

\* x / n for an integer n > 0
FDivInt(x, n) ==
    IF x.k = "num" THEN Rat(x.v, x.d * n) ELSE x

\* x < y on floats, neither a NaN
FLess(x, y) ==
    IF x.k = "inf" THEN x.v < 0 /\ ~(y.k = "inf" /\ y.v < 0)
    ELSE IF y.k = "inf" THEN y.v > 0
    ELSE x.v * y.d < y.v * x.d

\* x == y on floats, neither a NaN
FEq(x, y) == ~FLess(x, y) /\ ~FLess(y, x)

RECURSIVE FSum(_)
FSum(xs) == IF xs = <<>> THEN Num(0) ELSE FAdd(Head(xs), FSum(Tail(xs)))

\* the values of xs in ascending order (no NaN among them)
RECURSIVE FSorted(_)
FSorted(xs) ==
    IF xs = <<>> THEN <<>>
    ELSE LET i == CHOOSE j \in 1..Len(xs) :
                      \A m \in 1..Len(xs) : ~FLess(xs[m], xs[j])
         IN  <<xs[i]>> \o
             FSorted([m \in 1..(Len(xs) - 1) |->
                          IF m < i THEN xs[m] ELSE xs[m + 1]])

\* the reductions of pandas skip the NaN (skipna=True); of nothing they are NaN
DropNaN(xs) == SelectSeq(xs, NotNA)

\* Series.max(), also Python's max() of floats without NaN
SeriesMax(xs) ==
    LET ys == DropNaN(xs)
    IN  IF ys = <<>> THEN NaN ELSE FSorted(ys)[Len(ys)]

\* Series.mean(), also np.mean of floats without NaN
SeriesMean(xs) ==
    LET ys == DropNaN(xs)
    IN  IF ys = <<>> THEN NaN ELSE FDivInt(FSum(ys), Len(ys))

\* Series.median(), also np.median of floats without NaN: the middle value,
\* or the mean of the two middle values
SeriesMedian(xs) ==
    LET ys == FSorted(DropNaN(xs))
        n == Len(ys)
    IN  IF n = 0 THEN NaN
        ELSE IF n % 2 = 1 THEN ys[(n + 1) \div 2]
        ELSE FDivInt(FAdd(ys[n \div 2], ys[n \div 2 + 1]), 2)

Pow10(n) == IF n <= 0 THEN 1 ELSE 10 ^ n

\* "%.2e" of a float: three significant digits m (100..999, or 0) and the
\* decimal exponent e, the value being m * 10^(e-2); halves round to even
Format2e(x) ==
    IF x.k # "num" THEN [txt |-> x.k, neg |-> x.v < 0, m |-> 0, e |-> 0]
    ELSE IF x.v = 0 THEN [txt |-> "num", neg |-> FALSE, m |-> 0, e |-> 0]
    ELSE LET a == IF x.v < 0 THEN -x.v ELSE x.v
             AtLeast(e) == IF e >= 0 THEN x.d * Pow10(e) <= a
                           ELSE x.d <= a * Pow10(-e)
             e0 == SetMax({e \in -6..6 : AtLeast(e)})
             num == a * Pow10(2 - e0)
             den == x.d * Pow10(e0 - 2)
             q == num \div den
             r == num % den
             m == IF 2 * r > den \/ (2 * r = den /\ q % 2 = 1)
                  THEN q + 1 ELSE q
         IN  IF m = 1000
             THEN [txt |-> "num", neg |-> x.v < 0, m |-> 100, e |-> e0 + 1]
             ELSE [txt |-> "num", neg |-> x.v < 0, m |-> m, e |-> e0]

(***************************************************************************)
(* compare_outputs.py: the data frames.  A data frame is its quantity      *)
(* columns (cols, the Time column left out) and its rows, each the Time    *)
(* key and one CSV cell per column.  A CSV cell is a number, an infinity,  *)
(* an empty field or text that is no number.                               *)
(***************************************************************************)
CellNum(v) == [k |-> "num", v |-> v]

CellInf == [k |-> "inf", v |-> 1]

CellNegInf == [k |-> "inf", v |-> -1]

CellEmpty == [k |-> "empty", v |-> 0]

CellText == [k |-> "text", v |-> 0]

\* a to_numeric that lets only the finite numbers through
ToNumeric_FiniteOnly(cell) ==
    IF cell.k = "num" THEN Num(cell.v) ELSE NaN

\* pd.read_csv, then pd.to_numeric(..., errors="coerce"): an empty field and
\* text become NaN, "inf" and "-inf" are read as the infinities
ToNumeric(cell) ==
    IF cell.k = "num" THEN Num(cell.v)
    ELSE IF cell.k = "inf" THEN (IF cell.v > 0 THEN Inf ELSE NegInf)
    ELSE NaN

\* the names of the quantity columns of a data frame
ColSet(df) == Range(df.cols)

\* the rows of pd.merge(go, py, on="Time"), an inner join: one row for every
\* pair of a Go row and a Python row with the same Time, in the order of the
\* Go rows
MergeRows(go, py) ==
    LET n == Len(go.rows)
        m == Len(py.rows)
        pairs == [x \in 1..(n * m) |-> <<((x - 1) \div m) + 1, ((x - 1) % m) + 1>>]
    IN  SelectSeq(pairs,
            LAMBDA pr : go.rows[pr[1]].Time = py.rows[pr[2]].Time)

\* the columns of pd.merge(..., suffixes=("_go", "_py")): a name both frames
\* have gets the frame's suffix, any other name is kept as it is
MergeCols(go, py) ==
    LET both == ColSet(go) \cap ColSet(py)
        g == [i \in 1..Len(go.cols) |->
                 [name |-> IF go.cols[i] \in both THEN go.cols[i] \o S_go
                           ELSE go.cols[i],
                  side |-> "go", idx |-> i]]
        q == [i \in 1..Len(py.cols) |->
                 [name |-> IF py.cols[i] \in both THEN py.cols[i] \o S_py
                           ELSE py.cols[i],
                  side |-> "py", idx |-> i]]
    IN  g \o q

Merge(go, py) == [cols |-> MergeCols(go, py), rows |-> MergeRows(go, py)]

\* merged.columns
MergedColumns(m) == <<S_Time>> \o [i \in 1..Len(m.cols) |-> m.cols[i].name]

\* whether merged[name] exists (a KeyError otherwise)
HasColumn(m, name) == \E i \in 1..Len(m.cols) : m.cols[i].name = name

\* merged[name], row by row, as CSV cells
Column(m, go, py, name) ==
    LET c == m.cols[CHOOSE i \in 1..Len(m.cols) : m.cols[i].name = name]
    IN  [r \in 1..Len(m.rows) |->
            IF c.side = "go" THEN go.rows[m.rows[r][1]].cells[c.idx]
            ELSE py.rows[m.rows[r][2]].cells[c.idx]]

\* c.replace(suffix, ""), the name the harness recovers from a merged column
StripSuffix(name, suffix) == StrRemove(name, suffix)

\* go_cols / py_cols of main
SuffixedCols(m, suffix) ==
    {StripSuffix(c, suffix) : c \in {x \in Range(MergedColumns(m)) : EndsWith(x, suffix)}}

\* mask = go_vals.notna() & py_vals.notna(), for one row
BothPresent(g, p) == NotNA(g) /\ NotNA(p)

\* one entry of results for column col
ColumnResult(m, go, py, col) ==
    LET go_vals == [r \in 1..Len(m.rows) |->
                       ToNumeric(Column(m, go, py, col \o S_go)[r])]
        py_vals == [r \in 1..Len(m.rows) |->
                       ToNumeric(Column(m, go, py, col \o S_py)[r])]
        rows == SelectSeq([r \in 1..Len(m.rows) |-> r],
                    LAMBDA r : BothPresent(go_vals[r], py_vals[r]))
        diff == [n \in 1..Len(rows) |->
                    FAbs(FSub(go_vals[rows[n]], py_vals[rows[n]]))]
    IN  IF Len(rows) = 0
        THEN [col |-> col, cat |-> categorize(col), n |-> 0,
              mx |-> NaN, mn |-> NaN, md |-> NaN]
        ELSE [col |-> col, cat |-> categorize(col), n |-> Len(rows),
              mx |-> SeriesMax(diff), mn |-> SeriesMean(diff),
              md |-> SeriesMedian(diff)]

\* the line of the per-column table for one entry of results
DetailLine(r) ==
    IF IsNaN(r.mx)
    THEN [kind |-> "column", col |-> r.col, cat |-> r.cat, n |-> r.n,
          na |-> TRUE, mx |-> Format2e(NaN), mn |-> Format2e(NaN),
          md |-> Format2e(NaN)]
    ELSE [kind |-> "column", col |-> r.col, cat |-> r.cat, n |-> r.n,
          na |-> FALSE, mx |-> Format2e(r.mx), mn |-> Format2e(r.mn),
          md |-> Format2e(r.md)]

categories ==
    <<"Planets", "Galactic Center", "Lunar Nodes", "Locations", "Satellites">>

\* cat_results of the group summary
CatResults(res, cat) ==
    SelectSeq(res, LAMBDA r : r.cat = cat /\ ~IsNaN(r.mx))

\* the rollup of one category: max of the maxes, mean of the means, median of
\* the medians
CatRollup(res, cat) ==
    LET cr == CatResults(res, cat)
    IN  [mx |-> SeriesMax([i \in 1..Len(cr) |-> cr[i].mx]),
         mn |-> SeriesMean([i \in 1..Len(cr) |-> cr[i].mn]),
         md |-> SeriesMedian([i \in 1..Len(cr) |-> cr[i].md])]

\* the line of the group summary for one category
SummaryLine(res, cat) ==
    IF CatResults(res, cat) = <<>>
    THEN [kind |-> "category", cat |-> cat, na |-> TRUE,
          mx |-> Format2e(NaN), mn |-> Format2e(NaN), md |-> Format2e(NaN)]
    ELSE [kind |-> "category", cat |-> cat, na |-> FALSE,
          mx |-> Format2e(CatRollup(res, cat).mx),
          mn |-> Format2e(CatRollup(res, cat).mn),
          md |-> Format2e(CatRollup(res, cat).md)]

(***************************************************************************)
(* The state.  Four programs are modelled, each run on its own: the        *)
(* comparison harness (compare_outputs.py), the two implementations of the *)
(* lunar node polynomial called on one instant, the two dataset builders   *)
(* (celestial.py and generate_golden.py), and the almanac event search.    *)
(* A specification starts one of them and leaves the others idle.          *)
(***************************************************************************)
VARIABLES
    \* compare_outputs.py, main
    go_df,          \* the Go CSV as read
    py_df,          \* the Python CSV as read
    merged,         \* the merged frame
    common,         \* the sorted common column names
    results,        \* the per-column results
    col_i,          \* the position of the per-column loop in common
    stdout,         \* the lines printed so far
    exit_status,    \* the process exit status, -1 while main runs
    pc,             \* the place of main
    \* the lunar node functions called on one instant
    node_tt,        \* the instant, a TT Julian Date in half days
    node_py,        \* what lunar_nodes.mean_lunar_nodes returned, <<>> before
    node_golden,    \* nn_lon and sn_lon of generate_golden.py, <<>> before
    \* the dataset builders
    prog,           \* which builder runs
    sky,            \* which ephemeris the library has loaded
    timeSeries,     \* celestial.py: the instants asked for
    addSatellites,  \* celestial.py: the flag of get_celestial_df
    df,             \* celestial.py: the columns of the frame, in order
    ce_pc,          \* celestial.py: the place of get_celestial_df
    ce_i,           \* celestial.py: the position of the running loop
    ref_date,       \* generate_golden.py: REF_DATE, a day number
    years_range,    \* generate_golden.py: YEARS_RANGE
    gen_end,        \* generate_golden.py: end of generate_dates
    gen_d,          \* generate_golden.py: d of generate_dates
    dates,          \* generate_golden.py: the time grid
    g_i,            \* generate_golden.py: the position of the loop of main
    tests,          \* generate_golden.py: the records of the latest date
    counts,         \* generate_golden.py: the lengths of the record lists
    gg_pc,          \* generate_golden.py: the place of main
    \* the almanac event search
    search,         \* the step function, the window and the coarse step
    fd_state,       \* Scanning, Bracketed, Refining or Done
    fd_t,           \* the latest coarse sample
    fd_lo,          \* the bracket: the level at fd_lo is the old one,
    fd_hi,          \*   the level at fd_hi is another
    events,         \* the (crossing instant, new level) pairs found so far
    \* main.py, create_batch_processed_planetary_df
    input_df,       \* the Time column of the input frame
    batch_size,     \* batch_size
    num_batches,    \* num_batches
    batch_i,        \* i of the loop over the batches
    output_file,    \* the CSV file: absent, or its header lines and rows
    mb_pc           \* the place of create_batch_processed_planetary_df

compareVars == <<go_df, py_df, merged, common, results, col_i, stdout,
                 exit_status, pc>>

nodeVars == <<node_tt, node_py, node_golden>>

buildVars == <<prog, sky, timeSeries, addSatellites, df, ce_pc, ce_i,
               ref_date, years_range, gen_end, gen_d, dates, g_i, tests,
               counts, gg_pc>>

almanacVars == <<search, fd_state, fd_t, fd_lo, fd_hi, events>>

batchVars == <<input_df, batch_size, num_batches, batch_i, output_file, mb_pc>>

vars == <<compareVars, nodeVars, buildVars, almanacVars, batchVars>>

\* the harness does not run
IdleCompare ==
    /\ go_df = [cols |-> <<>>, rows |-> <<>>]
    /\ py_df = [cols |-> <<>>, rows |-> <<>>]
    /\ merged = [cols |-> <<>>, rows |-> <<>>]
    /\ common = <<>>
    /\ results = <<>>
    /\ col_i = 1
    /\ stdout = <<>>
    /\ exit_status = -1
    /\ pc = "idle"

\* the node functions are not called
IdleNodes ==
    /\ node_tt = 0
    /\ node_py = <<>>
    /\ node_golden = <<>>

\* get_celestial_df is not called
IdleCelestial ==
    /\ timeSeries = <<>>
    /\ addSatellites = FALSE
    /\ df = <<>>
    /\ ce_pc = "idle"
    /\ ce_i = 1

\* generate_golden.py does not run
IdleGolden ==
    /\ ref_date = 0
    /\ years_range = 0
    /\ gen_end = 0
    /\ gen_d = 0
    /\ dates = <<>>
    /\ g_i = 1
    /\ tests = <<>>
    /\ counts = <<>>
    /\ gg_pc = "idle"

\* no builder runs
IdleBuild ==
    /\ prog = "none"
    /\ sky = 0
    /\ IdleCelestial
    /\ IdleGolden

\* create_batch_processed_planetary_df is not called
IdleBatch ==
    /\ input_df = <<>>
    /\ batch_size = 0
    /\ num_batches = 0
    /\ batch_i = 0
    /\ output_file = [exists |-> FALSE, headers |-> <<>>, rows |-> <<>>]
    /\ mb_pc = "idle"

\* no event search runs
IdleAlmanac ==
    /\ search = <<>>
    /\ fd_state = "Idle"
    /\ fd_t = 0
    /\ fd_lo = 0
    /\ fd_hi = 0
    /\ events = <<>>

(***************************************************************************)
(* The inputs: three families of pairs of CSV files.                       *)
(***************************************************************************)
S_mars_lon_deg == <<"m","a","r","s">> \o S_lon_deg

\* the column names the third family draws from
NameUniverse ==
    << S_mars_lon_deg,
       <<"v","e","n","u","s">> \o S_lat_deg,
       <<"g","c">> \o S_lon_deg,
       <<"f","a","s","t","i","s","s">> \o S_sub_lat_deg,
       <<"l","o","c","_","n","y">> \o S_lat_deg,
       S_north_node_lon_deg,
       <<"l","o","c","_","g","o","t","h","a","m">> \o S_lat_deg,
       <<"a","_","g","o","_","g","o">>,
       <<"a","_","p","y">>,
       <<"c","e","r","e","s">> \o S_lon_deg >>

SeqsUpTo(S, n) == UNION {[1..k -> S] : k \in 0..n}

\* family 1: one common column, the Time keys vary (and repeat); the value
\* of a row is scale times its position
TimeFrames(scale) ==
    {[cols |-> <<S_mars_lon_deg>>,
      rows |-> [i \in 1..Len(ts) |-> [Time |-> ts[i], cells |-> <<CellNum(scale * i)>>]]] :
        ts \in SeqsUpTo(1..MaxTime, MaxRows)}

\* family 2: one common column, one Time key, the cells vary
CellValues == {CellNum(0), CellNum(3), CellEmpty, CellText, CellInf, CellNegInf}

ValueFrames ==
    {[cols |-> <<S_mars_lon_deg>>,
      rows |-> [i \in 1..Len(cs) |-> [Time |-> 1, cells |-> <<cs[i]>>]]] :
        cs \in SeqsUpTo(CellValues, MaxValRows)}

\* family 3: the column names vary, one row with Time key 1; every cell of
\* the frame holds base plus the position of its column's name in NameUniverse
NameIndex(name) == CHOOSE i \in 1..Len(NameUniverse) : NameUniverse[i] = name

NameFrames(base) ==
    {[cols |-> Sorted(S),
      rows |-> <<[Time |-> 1,
                  cells |-> [i \in 1..Cardinality(S) |->
                                CellNum(base * NameIndex(Sorted(S)[i]))]]>>] :
        S \in {T \in SUBSET Range(NameUniverse) : Cardinality(T) <= MaxCols}}

InitCompare ==
    /\ \/ go_df \in TimeFrames(1) /\ py_df \in TimeFrames(0)
       \/ go_df \in ValueFrames /\ py_df \in ValueFrames
       \/ go_df \in NameFrames(0) /\ py_df \in NameFrames(1)
    /\ merged = [cols |-> <<>>, rows |-> <<>>]
    /\ common = <<>>
    /\ results = <<>>
    /\ col_i = 1
    /\ stdout = <<>>
    /\ exit_status = -1
    /\ pc = "start"
    /\ IdleNodes
    /\ IdleBuild
    /\ IdleAlmanac
    /\ IdleBatch

(***************************************************************************)
(* compare_outputs.py: main, step by step.                                 *)
(***************************************************************************)
\* an exit test that never sees an empty merge
NoMatch_Negative(n) == n < 0

\* line 61: len(merged) == 0
NoMatch(n) == n = 0

\* lines 40-63: read the two files, merge on Time, print the row counts, and
\* exit with status 1 when no Time matches
ReadAndMerge ==
    /\ pc = "start"
    /\ LET m == Merge(go_df, py_df)
           n == Len(m.rows)
           head == << [kind |-> "paths"],
                      [kind |-> "rows", go |-> Len(go_df.rows), py |-> Len(py_df.rows)],
                      [kind |-> "columns", go |-> Len(go_df.cols) + 1,
                                           py |-> Len(py_df.cols) + 1],
                      [kind |-> "matched", n |-> n],
                      [kind |-> "unmatched_go", n |-> Len(go_df.rows) - n],
                      [kind |-> "unmatched_py", n |-> Len(py_df.rows) - n] >>
       IN  /\ merged' = m
           /\ IF NoMatch(n)
              THEN /\ stdout' = stdout \o head \o <<[kind |-> "error"]>>
                   /\ exit_status' = 1
                   /\ pc' = "exited"
              ELSE /\ stdout' = stdout \o head
                   /\ exit_status' = exit_status
                   /\ pc' = "columns"
    /\ UNCHANGED <<go_df, py_df, common, results, col_i>>

\* lines 65-75: the common columns, and the columns of one file only
FindColumns ==
    /\ pc = "columns"
    /\ LET go_cols == SuffixedCols(merged, S_go)
           py_cols == SuffixedCols(merged, S_py)
           go_only == go_cols \ py_cols
           py_only == py_cols \ go_cols
       IN  /\ common' = Sorted(go_cols \cap py_cols)
           /\ stdout' = stdout
                  \o (IF go_only # {}
                      THEN <<[kind |-> "only_go", cols |-> Sorted(go_only)]>>
                      ELSE <<>>)
                  \o (IF py_only # {}
                      THEN <<[kind |-> "only_py", cols |-> Sorted(py_only)]>>
                      ELSE <<>>)
           /\ pc' = IF go_cols \cap py_cols = {} THEN "detail" ELSE "percolumn"
    /\ col_i' = 1
    /\ UNCHANGED <<go_df, py_df, merged, results, exit_status>>

\* lines 79-97: one turn of the per-column loop; a column the merged frame
\* does not hold raises KeyError, which ends the process with status 1
PerColumn ==
    /\ pc = "percolumn"
    /\ LET col == common[col_i]
       IN  IF HasColumn(merged, col \o S_go) /\ HasColumn(merged, col \o S_py)
           THEN /\ results' = Append(results, ColumnResult(merged, go_df, py_df, col))
                /\ col_i' = col_i + 1
                /\ pc' = IF col_i = Len(common) THEN "detail" ELSE "percolumn"
                /\ exit_status' = exit_status
           ELSE /\ pc' = "raised"
                /\ exit_status' = 1
                /\ UNCHANGED <<results, col_i>>
    /\ UNCHANGED <<go_df, py_df, merged, common, stdout>>

\* lines 99-108: the per-column table
PrintDetail ==
    /\ pc = "detail"
    /\ stdout' = stdout \o <<[kind |-> "detail_header"]>>
                        \o [i \in 1..Len(results) |-> DetailLine(results[i])]
    /\ pc' = "summary"
    /\ UNCHANGED <<go_df, py_df, merged, common, results, col_i, exit_status>>

\* a summary that ends with status 1 when some error is not zero
SummaryStatus_FailOnError(res) ==
    IF \E i \in 1..Len(res) : ~IsNaN(res[i].mx) /\ FLess(Num(0), res[i].mx)
    THEN 1 ELSE 0

\* line 124 and the return of main: nothing is compared with a tolerance,
\* the process ends with status 0
SummaryStatus(res) == 0

\* lines 110-124: the group summary, then main returns
GroupSummary ==
    /\ pc = "summary"
    /\ stdout' = stdout \o <<[kind |-> "summary_header"]>>
                        \o [i \in 1..Len(categories) |->
                               SummaryLine(results, categories[i])]
    /\ exit_status' = SummaryStatus(results)
    /\ pc' = "done"
    /\ UNCHANGED <<go_df, py_df, merged, common, results, col_i>>

NextCompare ==
    \/ ReadAndMerge /\ UNCHANGED <<nodeVars, buildVars, almanacVars, batchVars>>
    \/ FindColumns /\ UNCHANGED <<nodeVars, buildVars, almanacVars, batchVars>>
    \/ PerColumn /\ UNCHANGED <<nodeVars, buildVars, almanacVars, batchVars>>
    \/ PrintDetail /\ UNCHANGED <<nodeVars, buildVars, almanacVars, batchVars>>
    \/ GroupSummary /\ UNCHANGED <<nodeVars, buildVars, almanacVars, batchVars>>

SpecCompare == InitCompare /\ [][NextCompare]_vars

(***************************************************************************)
(* Properties of compare_outputs.py.                                       *)
(***************************************************************************)
\* the lines of one kind printed so far
OutLines(kind) == SelectSeq(stdout, LAMBDA l : l.kind = kind)

\* no Time key of the Go file is a Time key of the Python file
NoCommonTime ==
    \A i \in 1..Len(go_df.rows) : \A j \in 1..Len(py_df.rows) :
        go_df.rows[i].Time # py_df.rows[j].Time

\* C1: when the two files share no Time key, main prints "Matched rows: 0"
\* and the error line, ends with exit status 1, prints no line of the
\* per-column table or of the group summary, and does nothing more.
C1_NoMatchIsFatal ==
    (pc # "start" /\ NoCommonTime) =>
        /\ pc = "exited"
        /\ exit_status = 1
        /\ OutLines("matched") = <<[kind |-> "matched", n |-> 0]>>
        /\ Len(OutLines("error")) = 1
        /\ OutLines("detail_header") = <<>>
        /\ OutLines("column") = <<>>
        /\ OutLines("summary_header") = <<>>
        /\ OutLines("category") = <<>>
        /\ results = <<>>
        /\ ~ENABLED NextCompare

\* C1 witness: both files have rows, none matches, and main has exited
C1_Witness ==
    /\ pc = "exited"
    /\ NoCommonTime
    /\ Len(go_df.rows) > 0
    /\ Len(py_df.rows) > 0

\* some category's largest error is above tol
CategoryExceeds(tol) ==
    \E i \in 1..Len(categories) :
        /\ CatResults(results, categories[i]) # <<>>
        /\ FLess(Num(tol), CatRollup(results, categories[i]).mx)

C3_UnmatchedCounts ==
    pc # "start" =>
        LET goTimes == {go_df.rows[i].Time : i \in 1..Len(go_df.rows)}
            pyTimes == {py_df.rows[j].Time : j \in 1..Len(py_df.rows)}
            ug == Cardinality({i \in 1..Len(go_df.rows) : go_df.rows[i].Time \notin pyTimes})
            up == Cardinality({j \in 1..Len(py_df.rows) : py_df.rows[j].Time \notin goTimes})
        IN  /\ OutLines("unmatched_go") = <<[kind |-> "unmatched_go", n |-> ug]>>
            /\ OutLines("unmatched_py") = <<[kind |-> "unmatched_py", n |-> up]>>
            /\ ug >= 0
            /\ up >= 0

\* the CSV cells of merged row r for a compared column
GoCell(r, col) == Column(merged, go_df, py_df, col \o S_go)[r]

PyCell(r, col) == Column(merged, go_df, py_df, col \o S_py)[r]

\* |A - B| for two cells that are numbers or infinities
AbsDiff(g, p) ==
    IF g.k = "num" /\ p.k = "num"
    THEN Num(IF g.v >= p.v THEN g.v - p.v ELSE p.v - g.v)
    ELSE IF g.k = "inf" /\ p.k = "inf" /\ g.v = p.v THEN NaN
    ELSE Inf

\* the entry res of results counts the merged rows R and holds the max, mean
\* and median of the |A - B| of those rows that are numbers or infinite
StatsAreOver(res, R) ==
    LET D(i) == AbsDiff(GoCell(i, res.col), PyCell(i, res.col))
        RD == {i \in R : NotNA(D(i))}
        n == Cardinality(RD)
        sum[S \in SUBSET RD] ==
            IF S = {} THEN 0
            ELSE LET x == CHOOSE y \in S : TRUE IN D(x).v + sum[S \ {x}]
    IN  /\ res.n = Cardinality(R)
        /\ IF RD = {}
           THEN IsNaN(res.mx) /\ IsNaN(res.mn) /\ IsNaN(res.md)
           ELSE /\ NotNA(res.mx) /\ NotNA(res.mn) /\ NotNA(res.md)
                /\ \E i \in RD : FEq(res.mx, D(i))
                /\ \A i \in RD : ~FLess(res.mx, D(i))
                /\ IF \E i \in RD : D(i).k = "inf"
                   THEN res.mn = Inf
                   ELSE /\ res.mn.k = "num"
                        /\ res.mn.v * n = sum[RD] * res.mn.d
                /\ 2 * Cardinality({i \in RD : ~FLess(res.md, D(i))}) >= n
                /\ 2 * Cardinality({i \in RD : ~FLess(D(i), res.md)}) >= n
                /\ \E i, j \in RD :
                       IF D(i).k = "inf" \/ D(j).k = "inf"
                       THEN res.md = Inf
                       ELSE /\ res.md.k = "num"
                            /\ 2 * res.md.v = (D(i).v + D(j).v) * res.md.d

\* C4 as stated: the row count of a compared column is the number of merged
\* rows in which both values are finite numbers, and max, mean and median are
\* those of |A - B| over exactly those rows.
C4_Original ==
    \A k \in 1..Len(results) :
        StatsAreOver(results[k],
            {r \in 1..Len(merged.rows) :
                GoCell(r, results[k].col).k = "num" /\ PyCell(r, results[k].col).k = "num"})

\* C4 as amended: the row count of a compared column is the number of merged
\* rows in which neither value is NaN after the numeric coercion (an empty
\* field and text are NaN, an infinite value is not), and max, mean and median
\* are those of the |A - B| of those rows, the NaN differences (inf - inf)
\* skipped.
C4_CountsNonNaNRows ==
    \A k \in 1..Len(results) :
        StatsAreOver(results[k],
            {r \in 1..Len(merged.rows) :
                /\ GoCell(r, results[k].col).k \in {"num", "inf"}
                /\ PyCell(r, results[k].col).k \in {"num", "inf"}})

\* C4 witness: a column with four merged rows that all count, some with an
\* infinite value and some with two finite values
C4_Witness ==
    \E k \in 1..Len(results) :
        /\ Len(merged.rows) = 4
        /\ results[k].n = 4
        /\ results[k].mx = Inf
        /\ \E r \in 1..Len(merged.rows) :
               GoCell(r, results[k].col).k = "num" /\ PyCell(r, results[k].col).k = "num"

\* C5: when some row matches by Time, main never ends early: it does not
\* exit with status 1 and raises nothing, and at its end it has printed one
\* line of the per-column table for every common column and the five lines of
\* the group summary.
C5_AlwaysCompletes ==
    (pc # "start" /\ ~NoCommonTime) =>
        /\ pc \in {"columns", "percolumn", "detail", "summary", "done"}
        /\ exit_status # 1
        /\ pc = "done" =>
               /\ Len(OutLines("detail_header")) = 1
               /\ Len(OutLines("column")) = Len(common)
               /\ Len(OutLines("summary_header")) = 1
               /\ Len(OutLines("category")) = Len(categories)

(***************************************************************************)
(* Angles and instants of the builders.  An angle is a whole number of     *)
(* 1e-5 degree, an instant a whole number of half days of Julian Date;    *)
(* the arithmetic of the code is done in these units, rounding down.       *)
(***************************************************************************)
\* 360.0 degrees
Deg360 == 36000000

\* 180.0 degrees
Deg180 == 18000000

\* 2451545.0, the epoch of the polynomial, in half days
JD_J2000 == 4903090

Abs(x) == IF x < 0 THEN -x ELSE x

\* quotient and remainder of a * b by c, for a, b >= 0 and c > 0, formed
\* without the product itself, which need not fit a machine integer
RECURSIVE MulQR(_, _, _)
MulQR(a, b, c) ==
    IF b = 0 THEN [q |-> 0, r |-> 0]
    ELSE LET h == MulQR(a, b \div 2, c)
             dbl == [q |-> 2 * h.q + (2 * h.r) \div c, r |-> (2 * h.r) % c]
             r2 == dbl.r + (a % c)
         IN  IF b % 2 = 0 THEN dbl
             ELSE [q |-> dbl.q + (a \div c) + (r2 \div c), r |-> r2 % c]

\* a * b / c rounded down, for a >= 0 and c > 0
MulDiv(a, b, c) ==
    IF a = 0 \/ b = 0 THEN 0
    ELSE IF b > 0 THEN MulQR(a, b, c).q
    ELSE LET m == MulQR(a, -b, c)
         IN  IF m.r = 0 THEN -m.q ELSE -m.q - 1

\* x % 360.0; the result of % has the sign of the divisor
Mod360_Keep(x) == x

Mod360(x) == x % Deg360

\* a polynomial whose epoch is half a day early
mean_lunar_node_longitude_EarlyEpoch(tt) ==
    LET n == tt - (JD_J2000 - 1)
        omega == 12504452
                 - MulDiv(1934136261, n, 730500)
                 + MulDiv(MulDiv(20708, Abs(n), 73050), Abs(n), 7305000)
                 + MulDiv(MulDiv(MulDiv(Abs(n), Abs(n), 73050), n, 73050),
                          10, 3287250)
    IN  Mod360(omega)

\* lunar_nodes.py, mean_lunar_node_longitude(time), with tt = time.tt.
\* T = (jd_tt - 2451545.0) / 36525.0 is n / 73050 for n half days; the terms
\* are 125.04452, 1934.136261 * T, 0.0020708 * T**2 and T**3 / 450000.0
mean_lunar_node_longitude(tt) ==
    LET n == tt - JD_J2000
        omega == 12504452
                 - MulDiv(1934136261, n, 730500)
                 + MulDiv(MulDiv(20708, Abs(n), 73050), Abs(n), 7305000)
                 + MulDiv(MulDiv(MulDiv(Abs(n), Abs(n), 73050), n, 73050),
                          10, 3287250)
    IN  Mod360(omega)

\* a south node that is not brought back into the circle
mean_lunar_nodes_NoWrap(tt) ==
    LET n == mean_lunar_node_longitude(tt)
        s == n + Deg180
    IN  <<n, s>>

\* lunar_nodes.py, mean_lunar_nodes(time): (n, s)
mean_lunar_nodes(tt) ==
    LET n == mean_lunar_node_longitude(tt)
        s == Mod360(n + Deg180)
    IN  <<n, s>>

\* generate_golden.py, mean_lunar_node_longitude(tt_jd)
golden_mean_lunar_node_longitude(tt_jd) ==
    LET n == tt_jd - JD_J2000
        omega == 12504452
                 - MulDiv(1934136261, n, 730500)
                 + MulDiv(MulDiv(20708, Abs(n), 73050), Abs(n), 7305000)
                 + MulDiv(MulDiv(MulDiv(Abs(n), Abs(n), 73050), n, 73050),
                          10, 3287250)
    IN  Mod360(omega)

(***************************************************************************)
(* The two node functions called on one instant.                           *)
(***************************************************************************)
\* the instants run from JD_J2000 - MaxNodeSteps * NodeStride to
\* JD_J2000 + MaxNodeSteps * NodeStride half days
MaxNodeSteps == 25

NodeStride == 2922

NodeInstants ==
    {JD_J2000 + k * NodeStride : k \in -MaxNodeSteps..MaxNodeSteps}
    \cup {JD_J2000 + k : k \in -MaxNodeSteps..MaxNodeSteps}

InitNodes ==
    /\ node_tt \in NodeInstants
    /\ node_py = <<>>
    /\ node_golden = <<>>
    /\ IdleCompare
    /\ IdleBuild
    /\ IdleAlmanac
    /\ IdleBatch

\* lunar_nodes.mean_lunar_nodes(time)
CallMeanLunarNodes ==
    /\ node_py = <<>>
    /\ node_py' = mean_lunar_nodes(node_tt)
    /\ UNCHANGED <<node_tt, node_golden>>

\* generate_golden.py lines 211-212: nn_lon and sn_lon
CallGoldenNodes ==
    /\ node_golden = <<>>
    /\ LET nn_lon == golden_mean_lunar_node_longitude(node_tt)
           sn_lon == Mod360(nn_lon + Deg180)
       IN  node_golden' = <<nn_lon, sn_lon>>
    /\ UNCHANGED <<node_tt, node_py>>

NextNodes ==
    \/ CallMeanLunarNodes /\ UNCHANGED <<compareVars, buildVars, almanacVars, batchVars>>
    \/ CallGoldenNodes /\ UNCHANGED <<compareVars, buildVars, almanacVars, batchVars>>

SpecNodes == InitNodes /\ [][NextNodes]_vars

\* C8: called on the instant TT JD 2451545.0, where T = 0, each of the two
\* implementations of the polynomial returns 125.04452 degrees exactly
C8_NodeAtEpoch ==
    node_tt = JD_J2000 =>
        /\ node_py # <<>> => node_py[1] = 12504452
        /\ node_golden # <<>> => node_golden[1] = 12504452

\* both implementations have been called on TT JD 2451545.0
C8_Witness ==
    /\ node_tt = JD_J2000
    /\ node_py # <<>> /\ node_py[1] = 12504452
    /\ node_golden # <<>> /\ node_golden[1] = 12504452

(***************************************************************************)
(* The ephemeris library, which both builders call.  What it returns is    *)
(* fixed by the ephemeris loaded (sky), the target and the instant.        *)
(***************************************************************************)
Skies == {0, 1234567, 20000000}

\* obs.ecliptic_latlon(): eclip[0].degrees and eclip[1]._degrees, a latitude
\* from -90 to 90 and a longitude from 0 to 360 degrees, both ends included
ecliptic_latlon(s, who, tt) ==
    [lat |-> ((s + who * 1700000 + ((tt - JD_J2000) % 89) * 1000) % 18000001)
                 - 9000000,
     lon |-> (s + who * 3600000 + ((tt - JD_J2000) % 97) * 1000) % 36000001]

\* sat.at(t).subpoint(): latitude.degrees and longitude.degrees, a longitude
\* from -180 degrees up to, not including, 180 degrees
subpoint(s, who, tt) ==
    [lat |-> ((s + who * 1700000 + ((tt - JD_J2000) % 89) * 1000) % 18000001)
                 - 9000000,
     lon |-> ((s + who * 3600000 + ((tt - JD_J2000) % 97) * 1000) % Deg360)
                 - Deg180]

(***************************************************************************)
(* celestial.py: get_celestial_df.                                         *)
(***************************************************************************)
\* get_bodies(): the keys of the dict in order, and what each stands for
bodies ==
    << [name |-> <<"S","u","n">>, target |-> "ephem"],
       [name |-> <<"M","o","o","n">>, target |-> "ephem"],
       [name |-> <<"M","e","r","c","u","r","y">>, target |-> "ephem"],
       [name |-> <<"V","e","n","u","s">>, target |-> "ephem"],
       [name |-> <<"M","a","r","s">>, target |-> "ephem"],
       [name |-> <<"J","u","p","i","t","e","r">>, target |-> "ephem"],
       [name |-> <<"S","a","t","u","r","n">>, target |-> "ephem"],
       [name |-> <<"U","r","a","n","u","s">>, target |-> "ephem"],
       [name |-> <<"N","e","p","t","u","n","e">>, target |-> "ephem"],
       [name |-> <<"P","l","u","t","o">>, target |-> "ephem"],
       [name |-> <<"G","C">>, target |-> "GalacticCenter"] >>

\* satellites.artisats: the keys of the dict in order
artisats ==
    << <<"F","a","s","t","I","S","S">>, <<"I","S","S","A","n","t","i">>,
       <<"P","o","l","e","S","A","T">> >>

\* the keys of the dict in order
locations_to_add ==
    << <<"l","o","c","_","n","i">>,
       <<"l","o","c","_","c","h","i","c","a","g","o">>,
       <<"l","o","c","_","l","o","n","d","o","n">>,
       <<"l","o","c","_","c","u","s","h","i","n","g">>,
       <<"l","o","c","_","n","y">>,
       <<"l","o","c","_","m","u","m","b","a","i">> >>

\* df[name] = values: a column of that name is replaced, a new one is added
\* at the end; from says which loop wrote it, for which entry
SetColumn(frame, name, from, quantity, values) ==
    LET col == [name |-> name, from |-> from, quantity |-> quantity,
                values |-> values]
    IN  IF \E i \in 1..Len(frame) : frame[i].name = name
        THEN [i \in 1..Len(frame) |->
                 IF frame[i].name = name THEN col ELSE frame[i]]
        ELSE Append(frame, col)

\* lines 40-47: the frame with its Time column; tobjs are the instants
CeStart ==
    /\ ce_pc = "start"
    /\ df' = SetColumn(<<>>, S_Time, [loop |-> "Time"], "time", timeSeries)
    /\ ce_pc' = "bodies"
    /\ ce_i' = 1
    /\ UNCHANGED <<timeSeries, addSatellites>>

\* lines 50-56: one turn of the loop over the bodies
CeBody ==
    /\ ce_pc = "bodies"
    /\ LET body_name == bodies[ce_i].name
           keyprefix == Lower(body_name)
           from == [loop |-> "bodies", target |-> bodies[ce_i].target]
           lat == [r \in 1..Len(timeSeries) |->
                      ecliptic_latlon(sky, ce_i, timeSeries[r]).lat]
           lon == [r \in 1..Len(timeSeries) |->
                      Mod360(ecliptic_latlon(sky, ce_i, timeSeries[r]).lon)]
       IN  df' = SetColumn(SetColumn(df, keyprefix \o S_lat_deg, from, "lat", lat),
                           keyprefix \o S_lon_deg, from, "lon", lon)
    /\ IF ce_i < Len(bodies)
       THEN ce_i' = ce_i + 1 /\ ce_pc' = "bodies"
       ELSE ce_i' = 1 /\ ce_pc' = IF addSatellites THEN "satellites"
                                                   ELSE "locations"
    /\ UNCHANGED <<timeSeries, addSatellites>>

\* lines 58-64: one turn of the loop over the satellites
CeSatellite ==
    /\ ce_pc = "satellites"
    /\ LET body_name == artisats[ce_i]
           keyprefix == Lower(body_name)
           who == Len(bodies) + ce_i
           from == [loop |-> "satellites"]
           lat == [r \in 1..Len(timeSeries) |->
                      subpoint(sky, who, timeSeries[r]).lat]
           lon == [r \in 1..Len(timeSeries) |->
                      Mod360(subpoint(sky, who, timeSeries[r]).lon)]
       IN  df' = SetColumn(SetColumn(df, keyprefix \o S_sub_lat_deg, from, "lat", lat),
                           keyprefix \o S_sub_lon_deg, from, "lon", lon)
    /\ IF ce_i < Len(artisats)
       THEN ce_i' = ce_i + 1 /\ ce_pc' = "satellites"
       ELSE ce_i' = 1 /\ ce_pc' = "locations"
    /\ UNCHANGED <<timeSeries, addSatellites>>

\* lines 67-73: one turn of the loop over the locations
CeLocation ==
    /\ ce_pc = "locations"
    /\ LET loc_name == locations_to_add[ce_i]
           keyprefix == Lower(loc_name)
           who == Len(bodies) + Len(artisats) + ce_i
           from == [loop |-> "locations"]
           lat == [r \in 1..Len(timeSeries) |->
                      ecliptic_latlon(sky, who, timeSeries[r]).lat]
           lon == [r \in 1..Len(timeSeries) |->
                      Mod360(ecliptic_latlon(sky, who, timeSeries[r]).lon)]
       IN  df' = SetColumn(SetColumn(df, keyprefix \o S_lat_deg, from, "lat", lat),
                           keyprefix \o S_lon_deg, from, "lon", lon)
    /\ IF ce_i < Len(locations_to_add)
       THEN ce_i' = ce_i + 1 /\ ce_pc' = "locations"
       ELSE ce_i' = 1 /\ ce_pc' = "nodes"
    /\ UNCHANGED <<timeSeries, addSatellites>>

\* lines 75-79: the two node columns, and the frame is returned
CeNodes ==
    /\ ce_pc = "nodes"
    /\ LET from == [loop |-> "nodes"]
           north_node_lon == [r \in 1..Len(timeSeries) |->
                                 mean_lunar_nodes(timeSeries[r])[1]]
           south_node_lon == [r \in 1..Len(timeSeries) |->
                                 mean_lunar_nodes(timeSeries[r])[2]]
       IN  df' = SetColumn(SetColumn(df, S_north_node_lon_deg, from, "lon",
                               [r \in 1..Len(timeSeries) |-> Mod360(north_node_lon[r])]),
                           S_south_node_lon_deg, from, "lon",
                           [r \in 1..Len(timeSeries) |-> Mod360(south_node_lon[r])])
    /\ ce_pc' = "done"
    /\ ce_i' = ce_i
    /\ UNCHANGED <<timeSeries, addSatellites>>

\* the instants get_celestial_df is asked for, at most MaxInstants at a time
MaxInstants == 2

CeInstants == {JD_J2000 - 73050, JD_J2000, JD_J2000 + 1, JD_J2000 + 19041}

InitCelestial ==
    /\ timeSeries \in SeqsUpTo(CeInstants, MaxInstants)
    /\ addSatellites \in BOOLEAN
    /\ df = <<>>
    /\ ce_pc = "start"
    /\ ce_i = 1

(***************************************************************************)
(* generate_golden.py.  A datetime is the day number of its date (the      *)
(* proleptic Gregorian ordinal); the times of day are all midnight.        *)
(***************************************************************************)
\* datetime(2025, 1, 1)
REF_DATE == 739252

YEARS_RANGE == 200

DAY_INCREMENT == 30

\* datetime(1850, 1, 1)
EARLIEST == 675334

\* datetime(2149, 12, 31)
LATEST == 784906

\* name and NAIF id of the bodies to test
BODIES ==
    << [body_name |-> <<"s","u","n">>, naif_id |-> 10],
       [body_name |-> <<"m","o","o","n">>, naif_id |-> 301],
       [body_name |-> <<"m","e","r","c","u","r","y">>, naif_id |-> 199],
       [body_name |-> <<"v","e","n","u","s">>, naif_id |-> 299],
       [body_name |-> <<"m","a","r","s">>, naif_id |-> 4],
       [body_name |-> <<"j","u","p","i","t","e","r">>, naif_id |-> 5],
       [body_name |-> <<"s","a","t","u","r","n">>, naif_id |-> 6],
       [body_name |-> <<"u","r","a","n","u","s">>, naif_id |-> 7],
       [body_name |-> <<"n","e","p","t","u","n","e">>, naif_id |-> 8],
       [body_name |-> <<"p","l","u","t","o">>, naif_id |-> 9] >>

\* LOCATIONS of generate_golden.py: the names
GOLDEN_LOCATIONS ==
    << <<"l","o","c","_","n","i">>, <<"l","o","c","_","c","m","e">>,
       <<"l","o","c","_","l","s","e">>,
       <<"l","o","c","_","c","u","s","h","i","n","g">>,
       <<"l","o","c","_","n","y","m","e","x">>,
       <<"l","o","c","_","m","u","m","b","a","i">> >>

\* ts.from_datetime(d).tt: the Julian Date of midnight of day d, in half
\* days; the 69 seconds or so between UTC and TT are below the resolution
from_datetime(d) == 2 * d + 3442849

\* a start that is left where it is
ClampStart_None(start) == start

\* lines 81-82
ClampStart(start) == IF start < EARLIEST THEN EARLIEST ELSE start

\* lines 83-84
ClampEnd(end) == IF end > LATEST THEN LATEST ELSE end

\* the families of records, each a list of main
FAMILIES ==
    {"spk", "ecliptic", "timescale", "location", "lunarnode", "sidereal",
     "era", "tdbtt", "phase", "separation", "elongation"}

\* lines 119 and 77-87: generate_dates is entered, start and end are set
GgStart ==
    /\ gg_pc = "start"
    /\ gen_d' = ClampStart(ref_date - years_range * 365)
    /\ gen_end' = ClampEnd(ref_date + years_range * 365)
    /\ dates' = <<>>
    /\ gg_pc' = "gen_loop"
    /\ UNCHANGED <<ref_date, years_range, g_i, tests, counts>>

\* lines 88-90: one turn of the loop of generate_dates
GgAppendDate ==
    /\ gg_pc = "gen_loop"
    /\ gen_d <= gen_end
    /\ dates' = Append(dates, gen_d)
    /\ gen_d' = gen_d + DAY_INCREMENT
    /\ UNCHANGED <<ref_date, years_range, gen_end, g_i, tests, counts, gg_pc>>

\* lines 91 and 119-139: generate_dates returns, the lists start empty
GgReturnDates ==
    /\ gg_pc = "gen_loop"
    /\ ~(gen_d <= gen_end)
    /\ counts' = [f \in FAMILIES |-> 0]
    /\ tests' = [f \in FAMILIES |-> <<>>]
    /\ g_i' = 1
    /\ gg_pc' = "main_loop"
    /\ UNCHANGED <<ref_date, years_range, gen_end, gen_d, dates>>

\* lines 142-293: the records main appends for the date d.  The fields are
\* the keys of a record and its angles; the other numbers the library
\* returns (positions, rotation angles, time differences, phases) are left
\* out
RecordsOf(s, d) ==
    LET tt_jd == from_datetime(d)
        ut1_jd == from_datetime(d)
        who_gc == Len(BODIES) + 1
        who_loc(k) == Len(BODIES) + 1 + k
        nn_lon == golden_mean_lunar_node_longitude(tt_jd)
        sn_lon == Mod360(nn_lon + Deg180)
        sun_ecl_lon == Mod360(ecliptic_latlon(s, 1, tt_jd).lon)
        moon_ecl_lon == Mod360(ecliptic_latlon(s, 2, tt_jd).lon)
        elong == Mod360(moon_ecl_lon - sun_ecl_lon)
        planets == SelectSeq(BODIES, LAMBDA b : b.naif_id \in {199, 299, 4, 5, 6})
    IN  [timescale |-> <<[utc_jd |-> from_datetime(d), tt_jd |-> tt_jd,
                          ut1_jd |-> ut1_jd]>>,
         sidereal |-> <<[ut1_jd |-> ut1_jd]>>,
         spk |-> [k \in 1..Len(BODIES) |->
                     [tdb_jd |-> tt_jd, body_id |-> BODIES[k].naif_id]],
         ecliptic |->
             [k \in 1..Len(BODIES) |->
                 [tdb_jd |-> tt_jd,
                  body_name |-> BODIES[k].body_name,
                  body_id |-> BODIES[k].naif_id,
                  ecl_lat_deg |-> ecliptic_latlon(s, k, tt_jd).lat,
                  ecl_lon_deg |-> Mod360(ecliptic_latlon(s, k, tt_jd).lon)]]
             \o <<[tdb_jd |-> tt_jd,
                   body_name |-> <<"g","c">>,
                   body_id |-> 0,
                   ecl_lat_deg |-> ecliptic_latlon(s, who_gc, tt_jd).lat,
                   ecl_lon_deg |-> Mod360(ecliptic_latlon(s, who_gc, tt_jd).lon)]>>,
         location |->
             [k \in 1..Len(GOLDEN_LOCATIONS) |->
                 [tdb_jd |-> tt_jd,
                  ut1_jd |-> ut1_jd,
                  loc_name |-> GOLDEN_LOCATIONS[k],
                  ecl_lat_deg |-> ecliptic_latlon(s, who_loc(k), tt_jd).lat,
                  ecl_lon_deg |-> Mod360(ecliptic_latlon(s, who_loc(k), tt_jd).lon)]],
         lunarnode |-> <<[tdb_jd |-> tt_jd,
                          north_node_lon_deg |-> nn_lon,
                          south_node_lon_deg |-> sn_lon]>>,
         era |-> <<[ut1_jd |-> ut1_jd]>>,
         tdbtt |-> <<[tt_jd |-> tt_jd]>>,
         phase |-> <<[tdb_jd |-> tt_jd, body_name |-> <<"m","o","o","n">>]>>
                   \o [k \in 1..Len(planets) |->
                          [tdb_jd |-> tt_jd, body_name |-> planets[k].body_name]],
         separation |-> <<[tdb_jd |-> tt_jd, body1 |-> <<"s","u","n">>,
                           body2 |-> <<"m","o","o","n">>]>>,
         elongation |-> <<[tdb_jd |-> tt_jd,
                           moon_ecl_lon_deg |-> moon_ecl_lon,
                           sun_ecl_lon_deg |-> sun_ecl_lon,
                           elongation_deg |-> elong]>>]

\* a turn that forgets what the lists held before it
GgProcessDate_Forgetful ==
    /\ gg_pc = "main_loop"
    /\ g_i <= Len(dates)
    /\ LET batch == RecordsOf(sky, dates[g_i])
       IN  /\ tests' = batch
           /\ counts' = [f \in FAMILIES |-> Len(batch[f])]
    /\ g_i' = g_i + 1
    /\ UNCHANGED <<ref_date, years_range, gen_end, gen_d, dates, gg_pc>>

\* lines 141-293: one turn of the loop of main over the dates.  The lists
\* only grow: the model keeps the length of each and the records the turn
\* has appended
GgProcessDate ==
    /\ gg_pc = "main_loop"
    /\ g_i <= Len(dates)
    /\ LET batch == RecordsOf(sky, dates[g_i])
       IN  /\ tests' = batch
           /\ counts' = [f \in FAMILIES |-> counts[f] + Len(batch[f])]
    /\ g_i' = g_i + 1
    /\ UNCHANGED <<ref_date, years_range, gen_end, gen_d, dates, gg_pc>>

\* lines 298-384: the loop is over, the files are written
GgWrite ==
    /\ gg_pc = "main_loop"
    /\ g_i > Len(dates)
    /\ gg_pc' = "done"
    /\ UNCHANGED <<ref_date, years_range, gen_end, gen_d, dates, g_i, tests,
                   counts>>

\* the grids asked for: the one of the program, and small ones about a
\* reference date inside the span, of at most MaxYears years either way
MaxYears == 2

RefDates == {EARLIEST, EARLIEST + 100, REF_DATE, LATEST - 100, LATEST}

InitGolden ==
    /\ \/ ref_date = REF_DATE /\ years_range = YEARS_RANGE /\ sky = 0
       \/ ref_date \in RefDates /\ years_range \in 0..MaxYears /\ sky \in Skies
    /\ gen_end = 0
    /\ gen_d = 0
    /\ dates = <<>>
    /\ g_i = 1
    /\ tests = <<>>
    /\ counts = <<>>
    /\ gg_pc = "start"

celestialVars == <<timeSeries, addSatellites, df, ce_pc, ce_i>>

goldenVars == <<ref_date, years_range, gen_end, gen_d, dates, g_i, tests,
                counts, gg_pc>>

InitBuild ==
    /\ IdleCompare
    /\ IdleNodes
    /\ IdleAlmanac
    /\ IdleBatch
    /\ \/ prog = "celestial" /\ sky \in Skies /\ InitCelestial /\ IdleGolden
       \/ prog = "golden" /\ InitGolden /\ IdleCelestial

\* what a step of get_celestial_df leaves alone
OutsideCelestial ==
    <<prog, sky, goldenVars, compareVars, nodeVars, almanacVars, batchVars>>

\* what a step of generate_golden.py leaves alone
OutsideGolden ==
    <<prog, sky, celestialVars, compareVars, nodeVars, almanacVars, batchVars>>

NextBuild ==
    \/ CeStart /\ UNCHANGED OutsideCelestial
    \/ CeBody /\ UNCHANGED OutsideCelestial
    \/ CeSatellite /\ UNCHANGED OutsideCelestial
    \/ CeLocation /\ UNCHANGED OutsideCelestial
    \/ CeNodes /\ UNCHANGED OutsideCelestial
    \/ GgStart /\ UNCHANGED OutsideGolden
    \/ GgAppendDate /\ UNCHANGED OutsideGolden
    \/ GgReturnDates /\ UNCHANGED OutsideGolden
    \/ GgProcessDate /\ UNCHANGED OutsideGolden
    \/ GgWrite /\ UNCHANGED OutsideGolden

SpecBuild == InitBuild /\ [][NextBuild]_vars

(***************************************************************************)
(* Properties of the builders.                                             *)
(***************************************************************************)
\* the category of the harness that the loop which wrote a column means
KindCategory(col) ==
    CASE col.from.loop = "bodies" ->
             IF col.from.target = "GalacticCenter" THEN "Galactic Center"
             ELSE "Planets"
      [] col.from.loop = "satellites" -> "Satellites"
      [] col.from.loop = "locations" -> "Locations"
      [] col.from.loop = "nodes" -> "Lunar Nodes"

\* C6: every column get_celestial_df has written, the Time column aside, is
\* put by categorize into the category of the kind of its label (Planets,
\* Galactic Center, Satellites, Locations or Lunar Nodes), never into Other
C6_ColumnsCategorized ==
    \A i \in 1..Len(df) :
        df[i].name # S_Time =>
            /\ categorize(df[i].name) = KindCategory(df[i])
            /\ categorize(df[i].name) # "Other"

\* get_celestial_df has returned the frame with the satellites: the Time
\* column and 42 others, of all five categories
C6_Witness ==
    /\ ce_pc = "done"
    /\ addSatellites
    /\ Len(df) = 43
    /\ {categorize(df[i].name) : i \in 2..Len(df)}
           = {"Planets", "Galactic Center", "Satellites", "Locations",
              "Lunar Nodes"}

\* 0 <= L < 360
LonInRange(x) == 0 <= x /\ x < Deg360

ClampToSpan(x) ==
    IF x < EARLIEST THEN EARLIEST ELSE IF x > LATEST THEN LATEST ELSE x

\* C10: the grid generate_dates has returned lies inside [EARLIEST, LATEST];
\* its first instant is the start asked for, clamped to the span; successive
\* instants are DAY_INCREMENT days apart; and its last instant is at most
\* the end asked for, clamped to the span, and less than DAY_INCREMENT days
\* before it
C10_GridInsideSpan ==
    (gg_pc = "main_loop" /\ g_i = 1) =>
        LET start == ClampToSpan(ref_date - years_range * 365)
            end == ClampToSpan(ref_date + years_range * 365)
        IN  /\ dates # <<>>
            /\ \A k \in 1..Len(dates) :
                   EARLIEST <= dates[k] /\ dates[k] <= LATEST
            /\ dates[1] = start
            /\ \A k \in 1..(Len(dates) - 1) :
                   dates[k + 1] - dates[k] = DAY_INCREMENT
            /\ dates[Len(dates)] <= end
            /\ end - dates[Len(dates)] < DAY_INCREMENT

\* generate_dates has returned the grid of the program, whose two ends asked
\* for lie outside the span: 3653 instants from EARLIEST on
C10_Witness ==
    /\ gg_pc = "main_loop" /\ g_i = 1
    /\ ref_date = REF_DATE /\ years_range = YEARS_RANGE
    /\ ref_date - years_range * 365 < EARLIEST
    /\ ref_date + years_range * 365 > LATEST
    /\ Len(dates) = 3653
    /\ dates[1] = EARLIEST
    /\ LATEST - dates[Len(dates)] < DAY_INCREMENT

(***************************************************************************)
(* The almanac event finder, and the season search of                      *)
(* generate_golden_almanac.py run with it.  The finder is the one of the   *)
(* specification (4.5): a coarse scan of a step function, and a bisection  *)
(* of every coarse step over which the level changes.  An instant is a     *)
(* whole number of 1e-5 day (0.864 s) since 2000-01-01 00:00.              *)
(***************************************************************************)
\* the instants in a day
DayUnits == 100000

\* the tropical year, 365.24219 days
TropicalYear == 36524219

\* the March equinox of 2000, March 20 at 07:35
MarchEquinox2000 == 7931597

\* the lengths of spring, summer and autumn: 92.758, 93.651 and 89.842 days
SpringLength == 9275800

SummerLength == 9365100

AutumnLength == 8984200

\* almanac.seasons: 0 from the March equinox on, 1 from the June solstice,
\* 2 from the September equinox, 3 from the December solstice
season_at(t) ==
    LET phase == (t - MarchEquinox2000) % TropicalYear
    IN  IF phase < SpringLength THEN 0
        ELSE IF phase < SpringLength + SummerLength THEN 1
        ELSE IF phase < SpringLength + SummerLength + AutumnLength THEN 2
        ELSE 3

\* the instants of the day, counted from 00:00, at which the twilight level
\* of the observer changes, and the level from each of them on: night ends
\* at 0.45 day, the Sun rises at 0.515 and sets at 0.905, night falls at
\* 0.97; a stage of twilight lasts 0.02 to 0.023 day
TwilightChanges ==
    << [at |-> 45000, level |-> 1], [at |-> 47200, level |-> 2],
       [at |-> 49500, level |-> 3], [at |-> 51500, level |-> 4],
       [at |-> 90500, level |-> 3], [at |-> 92500, level |-> 2],
       [at |-> 94800, level |-> 1], [at |-> 97000, level |-> 0] >>

\* almanac.dark_twilight_day: 0 night, 1 astronomical, 2 nautical, 3 civil
\* twilight, 4 day
twilight_at(t) ==
    LET x == t % DayUnits
        past == {k \in 1..Len(TwilightChanges) : TwilightChanges[k].at <= x}
    IN  IF past = {} THEN 0
        ELSE TwilightChanges[CHOOSE k \in past : \A j \in past : j <= k].level

\* the level of the step function searched, at instant t
Level(t) ==
    CASE search.f = "seasons" -> season_at(t)
      [] search.f = "twilight" -> twilight_at(t)

\* the coarse step of the season search, in days, and the precision to
\* which a crossing is located, in instants
SeasonStepDays == 30

Precision == 1

\* a coarse step four times as long
CoarseStep_Fourfold(days) == 4 * days * DayUnits

\* the coarse step in instants
CoarseStep(days) == days * DayUnits

\* lines 46-49: the search for the seasons from 2000-01-01 to 2050-12-31,
\* which is day 18627 from 2000-01-01
InitAlmanac ==
    /\ search = [f |-> "seasons", t0 |-> 0, t1 |-> 18627 * DayUnits,
                 step |-> CoarseStep(SeasonStepDays)]
    /\ fd_state = "Scanning"
    /\ fd_t = 0
    /\ fd_lo = 0
    /\ fd_hi = 0
    /\ events = <<>>
    /\ IdleCompare
    /\ IdleNodes
    /\ IdleBuild
    /\ IdleBatch

\* the next coarse sample after t: a step on, or the end of the window
NextSample(t) ==
    IF search.t1 - t <= search.step THEN search.t1 ELSE t + search.step

\* Scanning: the next coarse sample is taken; a change of level brackets a
\* crossing
Scan ==
    /\ fd_state = "Scanning"
    /\ fd_t < search.t1
    /\ LET next == NextSample(fd_t)
       IN  /\ fd_t' = next
           /\ IF Level(next) # Level(fd_t)
              THEN /\ fd_state' = "Bracketed"
                   /\ fd_lo' = fd_t
                   /\ fd_hi' = next
              ELSE UNCHANGED <<fd_state, fd_lo, fd_hi>>
    /\ UNCHANGED <<search, events>>

\* Bracketed: the refinement of the bracket begins
Bracket ==
    /\ fd_state = "Bracketed"
    /\ fd_state' = "Refining"
    /\ UNCHANGED <<search, fd_t, fd_lo, fd_hi, events>>

\* Refining: the bracket is halved, keeping the old level at its lower end
Bisect ==
    /\ fd_state = "Refining"
    /\ fd_hi - fd_lo > Precision
    /\ LET mid == fd_lo + (fd_hi - fd_lo) \div 2
       IN  IF Level(mid) = Level(fd_lo)
           THEN fd_lo' = mid /\ fd_hi' = fd_hi
           ELSE fd_hi' = mid /\ fd_lo' = fd_lo
    /\ UNCHANGED <<search, fd_state, fd_t, events>>

\* an Emit that pairs the crossing with the level before it
Emit_OldLevel ==
    /\ fd_state = "Refining"
    /\ fd_hi - fd_lo <= Precision
    /\ events' = Append(events, [t |-> fd_hi, level |-> Level(fd_lo)])
    /\ fd_state' = "Scanning"
    /\ UNCHANGED <<search, fd_t, fd_lo, fd_hi>>

\* Refining: the bracket is as narrow as the precision; the crossing and the
\* level after it are returned, and the scan goes on
Emit ==
    /\ fd_state = "Refining"
    /\ fd_hi - fd_lo <= Precision
    /\ events' = Append(events, [t |-> fd_hi, level |-> Level(fd_hi)])
    /\ fd_state' = "Scanning"
    /\ UNCHANGED <<search, fd_t, fd_lo, fd_hi>>

\* Scanning: the window is exhausted
Finish ==
    /\ fd_state = "Scanning"
    /\ fd_t >= search.t1
    /\ fd_state' = "Done"
    /\ UNCHANGED <<search, fd_t, fd_lo, fd_hi, events>>

NextAlmanac ==
    \/ Scan /\ UNCHANGED <<compareVars, nodeVars, buildVars, batchVars>>
    \/ Bracket /\ UNCHANGED <<compareVars, nodeVars, buildVars, batchVars>>
    \/ Bisect /\ UNCHANGED <<compareVars, nodeVars, buildVars, batchVars>>
    \/ Emit /\ UNCHANGED <<compareVars, nodeVars, buildVars, batchVars>>
    \/ Finish /\ UNCHANGED <<compareVars, nodeVars, buildVars, batchVars>>

SpecAlmanac == InitAlmanac /\ [][NextAlmanac]_vars

\* the first instant of the year 2000 + k, for the years up to 2099
YearStart(k) == (365 * k + (k + 3) \div 4) * DayUnits

BATCH_SIZE == 100000

\* a count of the full batches only
NumBatches_Floor(n, size) == n \div size

\* line 11: len(input_df) // batch_size + (1 if len(input_df) % batch_size != 0 else 0)
NumBatches(n, size) == (n \div size) + (IF n % size # 0 THEN 1 ELSE 0)

\* line 15: input_df.iloc[i * batch_size:(i + 1) * batch_size]; a slice
\* ends where the frame ends
Batch(frame, i, size) ==
    LET from == i * size + 1
        upto == IF (i + 1) * size < Len(frame) THEN (i + 1) * size ELSE Len(frame)
    IN  IF from > upto THEN <<>> ELSE SubSeq(frame, from, upto)

\* the rows of a frame as to_csv writes them, index=False: the cells of
\* every column, the Time first
FrameRows(frame) ==
    IF frame = <<>> THEN <<>>
    ELSE [r \in 1..Len(frame[1].values) |->
             [c \in 1..Len(frame) |-> frame[c].values[r]]]

\* the header line of a frame
FrameHeader(frame) == [c \in 1..Len(frame) |-> frame[c].name]

\* the input frames have at most MaxInputLen rows, the batches tried have
\* up to MaxBatchSize rows, or BATCH_SIZE
MaxInputLen == 3

MaxBatchSize == 2

BatchInstants == {JD_J2000, JD_J2000 + 1, JD_J2000 + 2}

\* a file left by an earlier run
StaleFile ==
    [exists |-> TRUE, headers |-> <<<<S_Time>>>>, rows |-> <<<<JD_J2000 - 1>>>>]

InitBatch ==
    /\ input_df \in SeqsUpTo(BatchInstants, MaxInputLen)
    /\ batch_size \in (1..MaxBatchSize) \cup {BATCH_SIZE}
    /\ num_batches = 0
    /\ batch_i = 0
    /\ output_file \in {[exists |-> FALSE, headers |-> <<>>, rows |-> <<>>],
                        StaleFile}
    /\ mb_pc = "start"
    /\ prog = "batch"
    /\ sky = 0
    /\ IdleCelestial
    /\ IdleGolden
    /\ IdleCompare
    /\ IdleNodes
    /\ IdleAlmanac

\* lines 10-13: the number of batches; the output file is removed
MbStart ==
    /\ mb_pc = "start"
    /\ num_batches' = NumBatches(Len(input_df), batch_size)
    /\ output_file' = [exists |-> FALSE, headers |-> <<>>, rows |-> <<>>]
    /\ batch_i' = 0
    /\ mb_pc' = "loop"
    /\ UNCHANGED <<input_df, batch_size, celestialVars>>

\* lines 14-16: the next batch is cut and get_celestial_df is called on its
\* Time column, with the satellites
MbCall ==
    /\ mb_pc = "loop"
    /\ batch_i < num_batches
    /\ timeSeries' = Batch(input_df, batch_i, batch_size)
    /\ addSatellites' = TRUE
    /\ df' = <<>>
    /\ ce_pc' = "start"
    /\ ce_i' = 1
    /\ mb_pc' = "called"
    /\ UNCHANGED <<input_df, batch_size, num_batches, batch_i, output_file>>

\* line 18: get_celestial_df has returned; its frame is appended to the
\* file, with the header line when i is 0
MbAppend ==
    /\ mb_pc = "called"
    /\ ce_pc = "done"
    /\ output_file' =
           [exists |-> TRUE,
            headers |-> IF batch_i = 0
                        THEN Append(output_file.headers, FrameHeader(df))
                        ELSE output_file.headers,
            rows |-> output_file.rows \o FrameRows(df)]
    /\ batch_i' = batch_i + 1
    /\ ce_pc' = "idle"
    /\ mb_pc' = "loop"
    /\ UNCHANGED <<input_df, batch_size, num_batches, timeSeries,
                   addSatellites, df, ce_i>>

\* the loop is over
MbReturn ==
    /\ mb_pc = "loop"
    /\ ~(batch_i < num_batches)
    /\ mb_pc' = "done"
    /\ UNCHANGED <<input_df, batch_size, num_batches, batch_i, output_file,
                   celestialVars>>

\* what a step of create_batch_processed_planetary_df leaves alone
OutsideBatch ==
    <<prog, sky, goldenVars, compareVars, nodeVars, almanacVars>>

NextBatch ==
    \/ MbStart /\ UNCHANGED OutsideBatch
    \/ MbCall /\ UNCHANGED OutsideBatch
    \/ CeStart /\ UNCHANGED OutsideCelestial
    \/ CeBody /\ UNCHANGED OutsideCelestial
    \/ CeSatellite /\ UNCHANGED OutsideCelestial
    \/ CeLocation /\ UNCHANGED OutsideCelestial
    \/ CeNodes /\ UNCHANGED OutsideCelestial
    \/ MbAppend /\ UNCHANGED OutsideBatch
    \/ MbReturn /\ UNCHANGED OutsideBatch

SpecBatch == InitBatch /\ [][NextBatch]_vars

\* the Time cells of the rows of the output file, in order
EmittedInstants == [r \in 1..Len(output_file.rows) |-> output_file.rows[r][1]]

\* C11: the batches are contiguous slices of the input that do not overlap
\* and together cover it, and they are appended in batch order: a batch
\* handed to get_celestial_df starts where the rows emitted so far end, the
\* emitted instants are at every moment the first rows of the input in the
\* order of the input, and once the function is done they are the whole
\* input, each row once
C11_BatchesCoverInput ==
    /\ mb_pc \in {"loop", "called", "done"} =>
           /\ Len(EmittedInstants) <= Len(input_df)
           /\ EmittedInstants = SubSeq(input_df, 1, Len(EmittedInstants))
    /\ mb_pc = "called" =>
           /\ timeSeries # <<>>
           /\ Len(timeSeries) <= batch_size
           /\ Len(EmittedInstants) + Len(timeSeries) <= Len(input_df)
           /\ timeSeries = SubSeq(input_df, Len(EmittedInstants) + 1,
                                  Len(EmittedInstants) + Len(timeSeries))
    /\ mb_pc = "done" => EmittedInstants = input_df

\* three rows of different instants have been emitted in two batches, a
\* full one and the rest
C11_Witness ==
    /\ mb_pc = "done"
    /\ Len(input_df) = 3
    /\ Cardinality(Range(input_df)) = 3
    /\ batch_size = 2
    /\ num_batches = 2
    /\ batch_i = 2
    /\ EmittedInstants = input_df

(***************************************************************************)
(* Properties of the records of generate_golden.py.                        *)
(***************************************************************************)
\* the dates main has gone through
DatesDone == g_i - 1

\* the records of the latest date hold one record for each of names, and
\* no other: field is the key that names what a record is about
OnePerName(recs, field, names) ==
    /\ Len(recs) = Len(names)
    /\ \A k \in 1..Len(names) :
           Cardinality({j \in 1..Len(recs) : recs[j][field] = names[k]}) = 1

\* the names of the bodies to test
BodyNames == [k \in 1..Len(BODIES) |-> BODIES[k].body_name]

\* what C12 and its amended form share: after every date the position
\* family holds one record for each of BODIES, the ecliptic family one for
\* each of BODIES and one for the galactic center, the location family one
\* for each of LOCATIONS, and each of the families timescale, sidereal,
\* lunarnode, era, tdbtt, separation and elongation one record; so after n
\* dates the lists hold n * |BODIES|, n * (|BODIES| + 1), n * |LOCATIONS|
\* and n records
ListedFamiliesFull ==
    /\ counts.spk = DatesDone * Len(BODIES)
    /\ counts.ecliptic = DatesDone * (Len(BODIES) + 1)
    /\ counts.location = DatesDone * Len(GOLDEN_LOCATIONS)
    /\ \A f \in {"timescale", "sidereal", "lunarnode", "era", "tdbtt",
                 "separation", "elongation"} : counts[f] = DatesDone
    /\ DatesDone > 0 =>
           /\ OnePerName(tests.spk, "body_id",
                         [k \in 1..Len(BODIES) |-> BODIES[k].naif_id])
           /\ OnePerName(tests.ecliptic, "body_name",
                         Append(BodyNames, <<"g","c">>))
           /\ OnePerName(tests.location, "loc_name", GOLDEN_LOCATIONS)
           /\ \A f \in {"timescale", "sidereal", "lunarnode", "era", "tdbtt",
                        "separation", "elongation"} : Len(tests[f]) = 1
           /\ \A f \in FAMILIES :
                  \A j \in 1..Len(tests[f]) :
                      \/ "tdb_jd" \in DOMAIN tests[f][j]
                         /\ tests[f][j].tdb_jd = from_datetime(dates[DatesDone])
                      \/ "tt_jd" \in DOMAIN tests[f][j]
                         /\ tests[f][j].tt_jd = from_datetime(dates[DatesDone])
                      \/ "ut1_jd" \in DOMAIN tests[f][j]
                         /\ tests[f][j].ut1_jd = from_datetime(dates[DatesDone])

\* C12 as stated: for every instant of the grid every per-body family holds
\* one record for each configured body (the full cross product), the phase
\* family among them, and the other families hold the listed numbers
C12_Original ==
    gg_pc \in {"main_loop", "done"} =>
        /\ ListedFamiliesFull
        /\ counts.phase = DatesDone * Len(BODIES)
        /\ DatesDone > 0 => OnePerName(tests.phase, "body_name", BodyNames)

\* the bodies of the phase family: the Moon, Mercury, Venus, Mars, Jupiter
\* and Saturn
PhaseNames ==
    << <<"m","o","o","n">>, <<"m","e","r","c","u","r","y">>,
       <<"v","e","n","u","s">>, <<"m","a","r","s">>,
       <<"j","u","p","i","t","e","r">>, <<"s","a","t","u","r","n">> >>

\* C12, amended: the listed families hold the listed numbers of records, and
\* the phase family, which is per body too, holds one record for each of six
\* of the ten bodies only (no record for the Sun, Uranus, Neptune or Pluto),
\* 6 * n records after n dates
C12_ListedFamiliesAndPhase ==
    gg_pc \in {"main_loop", "done"} =>
        /\ ListedFamiliesFull
        /\ counts.phase = DatesDone * 6
        /\ DatesDone > 0 => OnePerName(tests.phase, "body_name", PhaseNames)
        /\ gg_pc = "done" => DatesDone = Len(dates)

\* a grid of two years either way of the reference date is done: 49 dates,
\* 490 position records, 539 ecliptic records, 294 location and 294 phase
\* records, and 49 records in a per-instant family
C12_Witness ==
    /\ gg_pc = "done"
    /\ Len(dates) = 49
    /\ DatesDone = 49
    /\ counts.spk = 490
    /\ counts.ecliptic = 539
    /\ counts.location = 294
    /\ counts.phase = 294
    /\ counts.elongation = 49

(***************************************************************************)
(* Properties of the column lists of compare_outputs.py.                   *)
(***************************************************************************)
\* the columns the two files share, and the columns of one file only
SharedColumns == ColSet(go_df) \cap ColSet(py_df)

\* the names the lines of one kind list, all lines together
ListedIn(kind) ==
    UNION {Range(OutLines(kind)[i].cols) : i \in 1..Len(OutLines(kind))}

\* C13: once the harness has gone past its column lists, a column is listed
\* as only in Go (only in Python) exactly when the Go (Python) file has it
\* and the other file does not; and at the end of a run every column the two
\* files share, whatever its name, has exactly one entry in results, and
\* results holds nothing else.
C13_SharedColumnsOnce ==
    /\ pc \in {"percolumn", "detail", "summary", "done", "raised"} =>
           /\ ListedIn("only_go") = ColSet(go_df) \ ColSet(py_df)
           /\ ListedIn("only_py") = ColSet(py_df) \ ColSet(go_df)
    /\ pc = "done" =>
           /\ \A c \in SharedColumns :
                  Cardinality({i \in 1..Len(results) : results[i].col = c}) = 1
           /\ \A i \in 1..Len(results) : results[i].col \in SharedColumns

(***************************************************************************)
(* Properties of the group summary of compare_outputs.py.                  *)
(***************************************************************************)
\* the entries of results that have an error to roll up
ValidColumns == {k \in 1..Len(results) : ~IsNaN(results[k].mx)}

\* the |A - B| of the compared rows of entry k of results, NaN left out
RowErrors(k) ==
    LET rows == {r \in 1..Len(merged.rows) :
                    /\ GoCell(r, results[k].col).k \in {"num", "inf"}
                    /\ PyCell(r, results[k].col).k \in {"num", "inf"}}
        all == {AbsDiff(GoCell(r, results[k].col), PyCell(r, results[k].col)) :
                    r \in rows}
    IN  {e \in all : NotNA(e)}

\* the part of C14 about the lines of the summary: there is one line for each
\* of the five categories, in the order of the list; a category with no valid
\* column is shown as N/A; any other shows as max the largest |A - B| over
\* all compared rows of all its valid columns, as mean the mean of the means
\* of its valid columns and as median the median of their medians
RollupOfListedCategories ==
    /\ Len(OutLines("category")) = Len(categories)
    /\ \A ci \in 1..Len(categories) :
           LET line == OutLines("category")[ci]
               ks == SelectSeq([k \in 1..Len(results) |-> k],
                         LAMBDA k : k \in ValidColumns
                                    /\ results[k].cat = categories[ci])
               errs == UNION {RowErrors(ks[i]) : i \in 1..Len(ks)}
           IN  /\ line.cat = categories[ci]
               /\ line.na = (ks = <<>>)
               /\ ks # <<>> =>
                      /\ \E e \in errs :
                             /\ \A x \in errs : ~FLess(e, x)
                             /\ line.mx = Format2e(e)
                      /\ line.mn = Format2e(SeriesMean(
                                      [i \in 1..Len(ks) |-> results[ks[i]].mn]))
                      /\ line.md = Format2e(SeriesMedian(
                                      [i \in 1..Len(ks) |-> results[ks[i]].md]))

\* C14: at the end of a run the lines of the summary are the rollups above,
\* and every compared column with an error to roll up is in the rollup of
\* exactly one line of the summary.
C14_CategoryRollup ==
    pc = "done" =>
        /\ RollupOfListedCategories
        /\ \A k \in ValidColumns :
               Cardinality({ci \in 1..Len(categories) :
                               categories[ci] = results[k].cat}) = 1

\* the summary lines alone, at the end of a run
C14_ListedLinesHold == pc = "done" => RollupOfListedCategories

(***************************************************************************)
(* Properties of the two node longitudes.                                  *)
(***************************************************************************)
\* two longitudes of [0, 360) that are exactly 180 degrees apart
Opposite(n, s) ==
    /\ LonInRange(n)
    /\ LonInRange(s)
    /\ (s = n + Deg180 \/ s = n - Deg180)

\* the values of the column of df with this name
ColumnValues(name) ==
    df[CHOOSE i \in 1..Len(df) : df[i].name = name].values

MaxTwilightDays == 2

TwilightSteps == {1000, 4000}

\* 2024-01-01 is day 8766 from 2000-01-01
Jan2024 == 8766 * DayUnits

Searches ==
    {[f |-> "seasons", t0 |-> 0, t1 |-> 18627 * DayUnits,
      step |-> CoarseStep(SeasonStepDays)]}
    \cup {[f |-> "twilight", t0 |-> Jan2024, t1 |-> Jan2024 + days * DayUnits,
           step |-> st] : days \in 1..MaxTwilightDays, st \in TwilightSteps}

InitFinder ==
    /\ search \in Searches
    /\ fd_state = "Scanning"
    /\ fd_t = search.t0
    /\ fd_lo = 0
    /\ fd_hi = 0
    /\ events = <<>>
    /\ IdleCompare
    /\ IdleNodes
    /\ IdleBuild
    /\ IdleBatch

SpecFinder == InitFinder /\ [][NextAlmanac]_vars

\* the instants inside the window at which the step function changes
Transitions ==
    LET all ==
            IF search.f = "seasons"
            THEN {MarchEquinox2000 + k * TropicalYear + off :
                     k \in 0..51,
                     off \in {0, SpringLength, SpringLength + SummerLength,
                              SpringLength + SummerLength + AutumnLength}}
            ELSE {d * DayUnits + TwilightChanges[k].at :
                     d \in (search.t0 \div DayUnits)..(search.t1 \div DayUnits),
                     k \in 1..Len(TwilightChanges)}
    IN  {u \in all : search.t0 < u /\ u <= search.t1}

\* the shortest stretch over which the level is constant
MinDwell ==
    IF search.f = "seasons"
    THEN TropicalYear - (SpringLength + SummerLength + AutumnLength)
    ELSE CHOOSE m \in 1..DayUnits :
             /\ \E k \in 1..(Len(TwilightChanges) - 1) :
                    TwilightChanges[k + 1].at - TwilightChanges[k].at = m
             /\ \A k \in 1..(Len(TwilightChanges) - 1) :
                    TwilightChanges[k + 1].at - TwilightChanges[k].at >= m

\* no two transitions fall within one coarse step
StepIsConservative == search.step <= MinDwell

\* the coarse step an instant of the window falls in
StepOf(t) == (t - search.t0 - 1) \div search.step

\* the events are in increasing time order, and each is a crossing located
\* to the precision and paired with the level that holds after it
EventsAreCrossings ==
    /\ \A i \in 1..(Len(events) - 1) : events[i].t < events[i + 1].t
    /\ \A i \in 1..Len(events) :
           /\ search.t0 < events[i].t /\ events[i].t <= search.t1
           /\ events[i].level = Level(events[i].t)
           /\ Level(events[i].t - Precision) # events[i].level

\* every transition inside the window is reported
EveryTransitionReported ==
    /\ Len(events) = Cardinality(Transitions)
    /\ \A u \in Transitions : Level(u) # Level(u - 1)
    /\ \A u \in Transitions :
           \E i \in 1..Len(events) :
               events[i].t - Precision < u /\ u <= events[i].t

====
